---- MODULE Spec2Model ----
(***************************************************************************)
(* m2lstr: formulas of monadic second-order logic over strings are         *)
(* simplified (wff.py), translated into lazily composed finite automata    *)
(* with labelled arcs (translation.py, dfa.py) and run on a sequence of    *)
(* symbols (dfa.accepts).                                                  *)
(*                                                                         *)
(* Python values are modelled as follows.  A Variable is a record          *)
(* [name, order]; a WFF is a record tagged by op with the fields of its    *)
(* class; an Arc is a record [symbol, pos, neg, nextstate]; an automaton   *)
(* object is a record tagged by kind with the fields of its class.  An     *)
(* exception is a record [kind |-> <exception name>] where an automaton is *)
(* expected and the exception name where a result is expected.  Booleans   *)
(* returned to the caller are the strings "True" and "False", so that a    *)
(* result is either a boolean or an exception name.                        *)
(***************************************************************************)
EXTENDS Integers, Sequences, FiniteSets, TLC

VARIABLES
    formula,      \* the WFF handed to translate
    alphabet,     \* the alphabet handed to translate
    pc,           \* "init", "simplified", "translated", "returned", "raised"
    simplified,   \* translate's local: wff.simplify(formula)
    automaton,    \* the DFA object translate returned
    generator,    \* next value of the shared default_state_generator()
    seq,          \* the symbols accepts has consumed so far
    state,        \* accepts' local: the current state
    arcs,         \* transition's local: the arcs for the read symbol
    nextstates,   \* transition's local: the set of successor states
    result,       \* what the call returned or raised
    builder,      \* a DefaultBuilder object (its fields)
    dfa,          \* the DefaultDFA object that builder.build() returned
    observed,     \* what dfa's start(), final(s), arcs_at(s) gave after build()
    labelling     \* per position read, the set of variable names claiming it

vars == <<formula, alphabet, pc, simplified, automaton, generator, seq,
          state, arcs, nextstates, result, builder, dfa, observed,
          labelling>>

None == "None"

----------------------------------------------------------------------------
(* wff.py: variables and formulas                                          *)

Variable(name, order) == [name |-> name, order |-> order]

Exists(variable, body) == [op |-> "Exists", variable |-> variable, body |-> body]
Forall(variable, body) == [op |-> "Forall", variable |-> variable, body |-> body]
Not(body) == [op |-> "Not", body |-> body]
And(left, right) == [op |-> "And", left |-> left, right |-> right]
If(left, right) == [op |-> "If", left |-> left, right |-> right]
Or(left, right) == [op |-> "Or", left |-> left, right |-> right]
ContainedIn(left, right) == [op |-> "ContainedIn", left |-> left, right |-> right]
Equal(left, right) == [op |-> "Equal", left |-> left, right |-> right]
Less(left, right) == [op |-> "Less", left |-> left, right |-> right]
Singleton(variable) == [op |-> "Singleton", variable |-> variable]
Symbol(symbol, variable) == [op |-> "Symbol", symbol |-> symbol, variable |-> variable]

\* A strict reading of <=.
Variable_le_strict(self, other) == Less(self, other)

\* Variable.__le__ and Variable.__ge__
Variable_le(self, other) == Or(Less(self, other), Equal(self, other))
Variable_ge(self, other) == Or(Less(other, self), Equal(self, other))

Quantifiers == {"Exists", "Forall"}
Connectives == {"And", "If", "Or"}
Predicates == {"ContainedIn", "Equal", "Less", "Singleton", "Symbol"}

----------------------------------------------------------------------------
(* wff.py: the visitors.  A visitor is named by its class; make_* is the   *)
(* method of that class, inherited from IdentityVisitor unless overridden. *)

ConnectiveEliminationVisitor == "ConnectiveEliminationVisitor"
DoubleNegationEliminationVisitor == "DoubleNegationEliminationVisitor"
FirstOrderReplacementVisitor == "FirstOrderReplacementVisitor"

FirstOrderReplacement_keep_order(variable, body) ==
    IF variable.order = 1
    THEN Exists(variable, And(Singleton(Variable(variable.name, 2)), body))
    ELSE Exists(variable, body)

FirstOrderReplacement_drop_quantifier(variable, body) ==
    IF variable.order = 1
    THEN Exists(Variable(variable.name, 2),
                And(Singleton(Variable(variable.name, 2)), body))
    ELSE body

FirstOrderReplacement_make_exists(variable, body) ==
    IF variable.order = 1
    THEN Exists(Variable(variable.name, 2),
                And(Singleton(Variable(variable.name, 2)), body))
    ELSE Exists(variable, body)

make_exists(visitor, variable, body) ==
    IF visitor = FirstOrderReplacementVisitor
    THEN FirstOrderReplacement_make_exists(variable, body)
    ELSE Exists(variable, body)

\* A make_forall that leaves out both negations.
make_forall_as_exists(visitor, variable, body) ==
    IF visitor = ConnectiveEliminationVisitor
    THEN Exists(variable, body)
    ELSE Forall(variable, body)

make_forall(visitor, variable, body) ==
    IF visitor = ConnectiveEliminationVisitor
    THEN Not(Exists(variable, Not(body)))
    ELSE Forall(variable, body)

DoubleNegationElimination_make_not(body) ==
    IF body.op = "Not" THEN body.body ELSE Not(body)

make_not(visitor, body) ==
    IF visitor = DoubleNegationEliminationVisitor
    THEN DoubleNegationElimination_make_not(body)
    ELSE Not(body)

make_and(visitor, left, right) == And(left, right)

make_if(visitor, left, right) ==
    IF visitor = ConnectiveEliminationVisitor
    THEN Not(And(left, Not(right)))
    ELSE If(left, right)

make_or(visitor, left, right) ==
    IF visitor = ConnectiveEliminationVisitor
    THEN Not(And(Not(left), Not(right)))
    ELSE Or(left, right)

\* WFF.accept(visitor) for the three IdentityVisitor subclasses: the visit_*
\* method of the formula's class, children first.
RECURSIVE accept(_, _)
accept(f, visitor) ==
    CASE f.op = "Exists" -> make_exists(visitor, f.variable, accept(f.body, visitor))
      [] f.op = "Forall" -> make_forall(visitor, f.variable, accept(f.body, visitor))
      [] f.op = "Not" -> make_not(visitor, accept(f.body, visitor))
      [] f.op = "And" -> make_and(visitor, accept(f.left, visitor), accept(f.right, visitor))
      [] f.op = "If" -> make_if(visitor, accept(f.left, visitor), accept(f.right, visitor))
      [] f.op = "Or" -> make_or(visitor, accept(f.left, visitor), accept(f.right, visitor))
      [] OTHER -> f

simplify(f) ==
    accept(accept(accept(f, ConnectiveEliminationVisitor),
                  DoubleNegationEliminationVisitor),
           FirstOrderReplacementVisitor)

----------------------------------------------------------------------------
(* dfa.py: arcs, the builder and DefaultDFA                                *)

Arc(symbol, pos, neg, nextstate) ==
    [symbol |-> symbol, pos |-> pos, neg |-> neg, nextstate |-> nextstate]

RHO_SYMBOL == "rho"

AssertionError == [kind |-> "AssertionError"]
KeyError == [kind |-> "KeyError"]
NotImplementedError == [kind |-> "NotImplementedError"]
Exceptions == {"AssertionError", "KeyError", "NotImplementedError"}

Range(s) == {s[k] : k \in DOMAIN s}

\* An empty dict: the function with the empty domain.
EmptyDict == [k \in {} |-> None]

\* default_state_generator(): the generator object is its next value.  The
\* default argument of DefaultBuilder.__init__ is evaluated once, when the
\* class is defined, so every DefaultBuilder() draws from this one object.
default_state_generator == 0
next_state(g) == g
advance(g) == g + 1

\* DefaultBuilder.__init__ with the default state_generator.
DefaultBuilder ==
    [start_state |-> None, final_states |-> {}, arcs_at_state |-> EmptyDict]

\* add_state, given the value next(self.state_generator) returned.
add_state(b, s) ==
    [b EXCEPT !.arcs_at_state =
        [k \in DOMAIN b.arcs_at_state \cup {s} |->
            IF k = s THEN EmptyDict ELSE b.arcs_at_state[k]]]

set_start(b, s) == [b EXCEPT !.start_state = s]

set_final(b, s) == [b EXCEPT !.final_states = b.final_states \cup {s}]

\* add_arc on a state the builder has (self.arcs_at_state[state] exists).
add_arc(b, s, nextstate, symbol, pos, neg) ==
    LET arcs_for_symbol == b.arcs_at_state[s]
        arc_list == IF symbol \in DOMAIN arcs_for_symbol
                    THEN arcs_for_symbol[symbol] ELSE <<>>
    IN [b EXCEPT !.arcs_at_state[s] =
            [k \in DOMAIN arcs_for_symbol \cup {symbol} |->
                IF k = symbol
                THEN Append(arc_list, Arc(symbol, pos, neg, nextstate))
                ELSE arcs_for_symbol[k]]]

DefaultDFA(start_state, final_states, arcs_at_state) ==
    [kind |-> "DefaultDFA", start_state |-> start_state,
     final_states |-> final_states, arcs_at_state |-> arcs_at_state]

\* build(): the DFA holds self.start_state (a value), self.final_states (the
\* builder's own set object) and a new dict from each state to a
\* DictionaryArcs around the builder's own per-state dict.
build(b) ==
    DefaultDFA(b.start_state, b.final_states,
               [s \in DOMAIN b.arcs_at_state |-> b.arcs_at_state[s]])

\* A run of add_arc calls, each <<state, nextstate, symbol, pos, neg>>.
RECURSIVE add_arcs(_, _)
add_arcs(b, calls) ==
    IF calls = <<>> THEN b
    ELSE LET c == Head(calls)
         IN add_arcs(add_arc(b, c[1], c[2], c[3], c[4], c[5]), Tail(calls))

\* "for s in alphabet: <body>": body[s] is the run of add_arc calls of one
\* iteration; the iterations are taken in some order of the set.
RECURSIVE for_each(_, _, _)
for_each(b, symbols, body) ==
    IF symbols = {} THEN b
    ELSE LET s == CHOOSE x \in symbols : TRUE
         IN for_each(add_arcs(b, body[s]), symbols \ {s}, body)

----------------------------------------------------------------------------
(* translation.py: the automata of the atomic predicates.  Each takes the  *)
(* shared generator g and returns the DFA with the generator it leaves.    *)

Built(d, g) == [dfa |-> d, generator |-> g]

\* A universal automaton whose only state is not final.
universal_dfa_no_final(alphabet_, g) ==
    LET start == next_state(g)
        b == set_start(add_state(DefaultBuilder, start), start)
        body == [s \in alphabet_ |-> << <<start, start, s, {}, {}>> >>]
    IN Built(build(for_each(b, alphabet_, body)), advance(g))

\* universal_dfa: one state, start and final, looping on every symbol.
universal_dfa(alphabet_, g) ==
    LET start == next_state(g)
        b == set_final(set_start(add_state(DefaultBuilder, start), start), start)
        body == [s \in alphabet_ |-> << <<start, start, s, {}, {}>> >>]
    IN Built(build(for_each(b, alphabet_, body)), advance(g))

\* A symbol_dfa without the assertion that opens it.
symbol_dfa_unchecked(symbol, variable, alphabet_, g) ==
    LET var == variable.name
        start == next_state(g)
        sink == next_state(advance(g))
        b == set_final(set_start(
                 add_state(add_state(DefaultBuilder, start), sink), start), start)
        body == [s \in alphabet_ |->
                   << <<start, start, s, {}, {var}>>,
                      <<start, IF s = symbol THEN start ELSE sink, s, {var}, {}>>,
                      <<sink, sink, s, {}, {}>> >>]
    IN Built(build(for_each(b, alphabet_, body)), advance(advance(g)))

symbol_dfa(symbol, variable, alphabet_, g) ==
    IF symbol \notin alphabet_ THEN Built(AssertionError, g)
    ELSE
    LET var == variable.name
        start == next_state(g)
        sink == next_state(advance(g))
        b == set_final(set_start(
                 add_state(add_state(DefaultBuilder, start), sink), start), start)
        body == [s \in alphabet_ |->
                   << <<start, start, s, {}, {var}>>,
                      <<start, IF s = symbol THEN start ELSE sink, s, {var}, {}>>,
                      <<sink, sink, s, {}, {}>> >>]
    IN Built(build(for_each(b, alphabet_, body)), advance(advance(g)))

equal_dfa(left, right, alphabet_, g) ==
    LET x == left.name
        y == right.name
        start == next_state(g)
        sink == next_state(advance(g))
        b == set_final(set_start(
                 add_state(add_state(DefaultBuilder, start), sink), start), start)
        body == [s \in alphabet_ |->
                   << <<start, start, s, {}, {x, y}>>,
                      <<start, start, s, {x, y}, {}>>,
                      <<start, sink, s, {x}, {y}>>,
                      <<start, sink, s, {y}, {x}>>,
                      <<sink, sink, s, {}, {}>> >>]
    IN IF x = y THEN universal_dfa(alphabet_, g)
       ELSE Built(build(for_each(b, alphabet_, body)), advance(advance(g)))

contained_in_dfa(left, right, alphabet_, g) ==
    LET x == left.name
        y == right.name
        start == next_state(g)
        sink == next_state(advance(g))
        b == set_final(set_start(
                 add_state(add_state(DefaultBuilder, start), sink), start), start)
        body == [s \in alphabet_ |->
                   << <<start, start, s, {}, {x}>>,
                      <<start, start, s, {x, y}, {}>>,
                      <<start, sink, s, {x}, {y}>>,
                      <<sink, sink, s, {}, {}>> >>]
    IN IF x = y THEN universal_dfa(alphabet_, g)
       ELSE Built(build(for_each(b, alphabet_, body)), advance(advance(g)))

singleton_dfa(variable, alphabet_, g) ==
    LET var == variable.name
        start == next_state(g)
        final_ == next_state(advance(g))
        sink == next_state(advance(advance(g)))
        b == set_final(set_start(
                 add_state(add_state(add_state(DefaultBuilder, start), final_), sink),
                 start), final_)
        body == [s \in alphabet_ |->
                   << <<start, start, s, {}, {var}>>,
                      <<start, final_, s, {var}, {}>>,
                      <<final_, final_, s, {}, {var}>>,
                      <<final_, sink, s, {var}, {}>>,
                      <<sink, sink, s, {}, {}>> >>]
    IN Built(build(for_each(b, alphabet_, body)), advance(advance(advance(g))))

\* A less_dfa whose arc for "x here, y not here" leaves out neg.
less_dfa_overlapping(left, right, alphabet_, g) ==
    LET x == left.name
        y == right.name
        start == next_state(g)
        final_ == next_state(advance(g))
        sink == next_state(advance(advance(g)))
        b == set_final(set_final(set_start(
                 add_state(add_state(add_state(DefaultBuilder, start), final_), sink),
                 start), start), final_)
        body == [s \in alphabet_ |->
                   << <<start, sink, s, {x, y}, {}>>,
                      <<start, start, s, {}, {x, y}>>,
                      <<start, start, s, {x}, {}>>,
                      <<start, final_, s, {y}, {x}>>,
                      <<final_, final_, s, {}, {x}>>,
                      <<final_, sink, s, {x}, {}>>,
                      <<sink, sink, s, {}, {}>> >>]
    IN Built(build(for_each(b, alphabet_, body)), advance(advance(advance(g))))

\* A less_dfa with the roles of its two variables exchanged.
less_dfa_greater(left, right, alphabet_, g) ==
    LET x == right.name
        y == left.name
        start == next_state(g)
        final_ == next_state(advance(g))
        sink == next_state(advance(advance(g)))
        b == set_final(set_final(set_start(
                 add_state(add_state(add_state(DefaultBuilder, start), final_), sink),
                 start), start), final_)
        body == [s \in alphabet_ |->
                   << <<start, sink, s, {x, y}, {}>>,
                      <<start, start, s, {}, {x, y}>>,
                      <<start, start, s, {x}, {y}>>,
                      <<start, final_, s, {y}, {x}>>,
                      <<final_, final_, s, {}, {x}>>,
                      <<final_, sink, s, {x}, {}>>,
                      <<sink, sink, s, {}, {}>> >>]
    IN Built(build(for_each(b, alphabet_, body)), advance(advance(advance(g))))

less_dfa(left, right, alphabet_, g) ==
    LET x == left.name
        y == right.name
        start == next_state(g)
        final_ == next_state(advance(g))
        sink == next_state(advance(advance(g)))
        b == set_final(set_final(set_start(
                 add_state(add_state(add_state(DefaultBuilder, start), final_), sink),
                 start), start), final_)
        body == [s \in alphabet_ |->
                   << <<start, sink, s, {x, y}, {}>>,
                      <<start, start, s, {}, {x, y}>>,
                      <<start, start, s, {x}, {y}>>,
                      <<start, final_, s, {y}, {x}>>,
                      <<final_, final_, s, {}, {x}>>,
                      <<final_, sink, s, {x}, {}>>,
                      <<sink, sink, s, {}, {}>> >>]
    IN Built(build(for_each(b, alphabet_, body)), advance(advance(advance(g))))

----------------------------------------------------------------------------
(* dfa.py: the lazy compositions                                           *)

IntersectionDFA(left, right) == [kind |-> "IntersectionDFA", left |-> left, right |-> right]
ComplementDFA(d) == [kind |-> "ComplementDFA", dfa |-> d]
ProjectedNFA(d, variable) == [kind |-> "ProjectedNFA", dfa |-> d, variable |-> variable]
DeterminizedDFA(nfa) == [kind |-> "DeterminizedDFA", nfa |-> nfa]

IsException(a) == a.kind \in Exceptions

RECURSIVE start(_)
start(a) ==
    CASE a.kind = "DefaultDFA" -> a.start_state
      [] a.kind = "IntersectionDFA" -> <<start(a.left), start(a.right)>>
      [] a.kind = "ComplementDFA" -> start(a.dfa)
      [] a.kind = "ProjectedNFA" -> start(a.dfa)
      [] a.kind = "DeterminizedDFA" -> {start(a.nfa)}

IntersectionDFA_final_either(left_final, right_final) == left_final \/ right_final

IntersectionDFA_final(left_final, right_final) == left_final /\ right_final

ComplementDFA_final(dfa_final) == ~dfa_final

\* A macro-state that is final only when all its members are.
DeterminizedDFA_final_all(finals) == \A f \in finals : f

\* any(...) over the finality of the members of a macro-state
DeterminizedDFA_final(finals) == TRUE \in finals

RECURSIVE final(_, _)
final(a, s) ==
    CASE a.kind = "DefaultDFA" -> s \in a.final_states
      [] a.kind = "IntersectionDFA" ->
            IntersectionDFA_final(final(a.left, s[1]), final(a.right, s[2]))
      [] a.kind = "ComplementDFA" -> ComplementDFA_final(final(a.dfa, s))
      [] a.kind = "ProjectedNFA" -> final(a.dfa, s)
      [] a.kind = "DeterminizedDFA" ->
            DeterminizedDFA_final({final(a.nfa, u) : u \in s})

\* What iterating a for_symbol(...) result to its end gives: the arcs it
\* yields, or the exception it raises on the way.  The arcs are kept as a
\* set: every consumer (the loops below, transition) reads them all and
\* none depends on their order or multiplicity.
Yields(arcs_) == [error |-> None, arcs |-> arcs_]
Raises(e) == [error |-> e, arcs |-> {}]

\* DictionaryArcs.for_symbol
DictionaryArcs_for_symbol(symbol_to_arcs, symbol) ==
    IF symbol \in DOMAIN symbol_to_arcs THEN Yields(Range(symbol_to_arcs[symbol]))
    ELSE IF RHO_SYMBOL \in DOMAIN symbol_to_arcs
         THEN Yields(Range(symbol_to_arcs[RHO_SYMBOL]))
         ELSE Raises("KeyError")

\* The two assertions that open intersect_arcs.
intersect_arcs_asserts(left, right) ==
    left.pos \cap left.neg = {} /\ right.pos \cap right.neg = {}

\* intersect_arcs past its assertions: the arcs it yields (none or one).
intersect_arcs(left, right) ==
    LET symbols == IF left.symbol = right.symbol \/ right.symbol = RHO_SYMBOL
                   THEN {left.symbol}
                   ELSE IF left.symbol = RHO_SYMBOL THEN {right.symbol} ELSE {}
        pos == left.pos \cup right.pos
        neg == left.neg \cup right.neg
    IN IF symbols = {} \/ pos \cap neg # {} THEN {}
       ELSE {Arc(symbol, pos, neg, <<left.nextstate, right.nextstate>>) :
                symbol \in symbols}

\* IntersectionArcs.for_symbol: the right arcs are asked for once per left
\* arc, so not at all when the left yields none.
IntersectionArcs_for_symbol(l, r) ==
    IF l.error # None THEN l
    ELSE IF l.arcs = {} THEN Yields({})
    ELSE IF r.error # None THEN r
    ELSE IF \E la \in l.arcs, ra \in r.arcs : ~intersect_arcs_asserts(la, ra)
         THEN Raises("AssertionError")
    ELSE Yields(UNION {intersect_arcs(la, ra) : la \in l.arcs, ra \in r.arcs})

\* ProjectedArcs.for_symbol
ProjectedArcs_for_symbol(m, variable) ==
    IF m.error # None THEN m
    ELSE IF \E arc \in m.arcs : variable \in arc.pos /\ variable \in arc.neg
         THEN Raises("AssertionError")
    ELSE Yields({IF variable \in arc.pos
                 THEN Arc(arc.symbol, arc.pos \ {variable}, arc.neg, arc.nextstate)
                 ELSE IF variable \in arc.neg
                 THEN Arc(arc.symbol, arc.pos, arc.neg \ {variable}, arc.nextstate)
                 ELSE arc : arc \in m.arcs})

\* A DeterminizedArcs.for_symbol that tests an arc's neg only.
DeterminizedArcs_for_symbol_neg_only(mappings, symbol) ==
    LET errors == {m.error : m \in mappings} \ {None}
        all == UNION {m.arcs : m \in mappings}
        variables == UNION {arc.pos \cup arc.neg : arc \in all}
    IN IF errors # {} THEN Raises(CHOOSE e \in errors : TRUE)
       ELSE Yields({Arc(symbol, pos, variables \ pos,
                        {arc.nextstate : arc \in
                            {a \in all : pos \cap a.neg = {}}}) :
                    pos \in SUBSET variables})

\* DeterminizedArcs.for_symbol over the for_symbol results of its mappings.
\* An exception of a mapping is raised by the first loop; when several
\* mappings raise, which one comes first is the iteration order of the
\* macro-state.
DeterminizedArcs_for_symbol(mappings, symbol) ==
    LET errors == {m.error : m \in mappings} \ {None}
        all == UNION {m.arcs : m \in mappings}
        variables == UNION {arc.pos \cup arc.neg : arc \in all}
    IN IF errors # {} THEN Raises(CHOOSE e \in errors : TRUE)
       ELSE Yields({Arc(symbol, pos, variables \ pos,
                        {arc.nextstate : arc \in
                            {a \in all : pos \cap a.neg = {}
                                         /\ (variables \ pos) \cap a.pos = {}}}) :
                    pos \in SUBSET variables})

\* automaton.arcs_at(s).for_symbol(symbol)
RECURSIVE for_symbol(_, _, _)
for_symbol(a, s, symbol) ==
    CASE a.kind = "DefaultDFA" ->
            IF s \in DOMAIN a.arcs_at_state
            THEN DictionaryArcs_for_symbol(a.arcs_at_state[s], symbol)
            ELSE Raises("KeyError")
      [] a.kind = "IntersectionDFA" ->
            IntersectionArcs_for_symbol(for_symbol(a.left, s[1], symbol),
                                        for_symbol(a.right, s[2], symbol))
      [] a.kind = "ComplementDFA" -> for_symbol(a.dfa, s, symbol)
      [] a.kind = "ProjectedNFA" ->
            ProjectedArcs_for_symbol(for_symbol(a.dfa, s, symbol), a.variable)
      [] a.kind = "DeterminizedDFA" ->
            DeterminizedArcs_for_symbol({for_symbol(a.nfa, u, symbol) : u \in s},
                                        symbol)

----------------------------------------------------------------------------
(* translation.py: TranslationVisitor and translate                        *)

\* formula.accept(TranslationVisitor(alphabet)), with the shared generator:
\* the DFA object (or the exception raised) and the generator afterwards.
RECURSIVE TranslationVisitor_accept(_, _, _)
TranslationVisitor_accept(f, alphabet_, g) ==
    CASE f.op = "Exists" ->
            LET body == TranslationVisitor_accept(f.body, alphabet_, g)
            IN IF IsException(body.dfa) THEN body
               ELSE Built(DeterminizedDFA(ProjectedNFA(body.dfa, f.variable.name)),
                          body.generator)
      [] f.op = "Not" ->
            LET body == TranslationVisitor_accept(f.body, alphabet_, g)
            IN IF IsException(body.dfa) THEN body
               ELSE Built(ComplementDFA(body.dfa), body.generator)
      [] f.op = "And" ->
            LET left == TranslationVisitor_accept(f.left, alphabet_, g)
                right == TranslationVisitor_accept(f.right, alphabet_, left.generator)
            IN IF IsException(left.dfa) THEN left
               ELSE IF IsException(right.dfa) THEN right
               ELSE Built(IntersectionDFA(left.dfa, right.dfa), right.generator)
      [] f.op = "Symbol" -> symbol_dfa(f.symbol, f.variable, alphabet_, g)
      [] f.op = "Equal" -> equal_dfa(f.left, f.right, alphabet_, g)
      [] f.op = "ContainedIn" -> contained_in_dfa(f.left, f.right, alphabet_, g)
      [] f.op = "Singleton" -> singleton_dfa(f.variable, alphabet_, g)
      [] f.op = "Less" -> less_dfa(f.left, f.right, alphabet_, g)
      [] OTHER -> Built(NotImplementedError, g)

translate(f, alphabet_, g) == TranslationVisitor_accept(simplify(f), alphabet_, g)

----------------------------------------------------------------------------
(* dfa.py: transition and accepts                                          *)

\* A transition that treats a step without successor as rejection.
transition_reject_when_no_successor(a, s, symbol) ==
    LET arcs_ == for_symbol(a, s, symbol)
        nextstates_ == {arc.nextstate : arc \in arcs_.arcs}
    IN [arcs |-> arcs_, nextstates |-> nextstates_,
        error |-> IF arcs_.error # None THEN "False"
                  ELSE IF nextstates_ = {} THEN "False"
                  ELSE IF Cardinality(nextstates_) # 1 THEN "AssertionError"
                  ELSE None,
        state |-> IF Cardinality(nextstates_) = 1
                  THEN CHOOSE n \in nextstates_ : TRUE ELSE None]

\* A transition that follows only the arcs applicable to the empty
\* labelling (those with an empty pos set).
transition_only_empty_pos(a, s, symbol) ==
    LET arcs_ == for_symbol(a, s, symbol)
        nextstates_ == {arc.nextstate : arc \in {x \in arcs_.arcs : x.pos = {}}}
    IN [arcs |-> arcs_, nextstates |-> nextstates_,
        error |-> IF arcs_.error # None THEN arcs_.error
                  ELSE IF Cardinality(nextstates_) # 1 THEN "AssertionError"
                  ELSE None,
        state |-> IF Cardinality(nextstates_) = 1
                  THEN CHOOSE n \in nextstates_ : TRUE ELSE None]

\* transition's locals and outcome: the arcs, the set of successors, and
\* the state returned or the exception raised.
transition(a, s, symbol) ==
    LET arcs_ == for_symbol(a, s, symbol)
        nextstates_ == {arc.nextstate : arc \in arcs_.arcs}
    IN [arcs |-> arcs_, nextstates |-> nextstates_,
        error |-> IF arcs_.error # None THEN arcs_.error
                  ELSE IF Cardinality(nextstates_) # 1 THEN "AssertionError"
                  ELSE None,
        state |-> IF Cardinality(nextstates_) = 1
                  THEN CHOOSE n \in nextstates_ : TRUE ELSE None]

Bool(b) == IF b THEN "True" ELSE "False"

\* accepts(automaton, seq): "True", "False" or the exception raised.
RECURSIVE accepts_from(_, _, _)
accepts_from(a, s, w) ==
    IF w = <<>> THEN Bool(final(a, s))
    ELSE LET t == transition(a, s, Head(w))
         IN IF t.error # None THEN t.error
            ELSE accepts_from(a, t.state, Tail(w))

accepts(a, w) == accepts_from(a, start(a), w)

----------------------------------------------------------------------------
(* The inputs: formulas, alphabets and symbols                             *)

MaxLen == 3     \* longest sequence handed to accepts
MaxNeg == 2     \* negations stacked on top of a formula of the pool

Symbols == {"a", "b"}
Alphabets == SUBSET Symbols

x1 == Variable("x", 1)
x2 == Variable("x", 2)
y1 == Variable("y", 1)
y2 == Variable("y", 2)

\* Atomic predicates over x alone, and over x and y.
AtomsX ==
    {Symbol("a", x1), Singleton(x1), Equal(x1, x1), Less(x1, x1),
     ContainedIn(x1, x2)}
AtomsXY ==
    {Symbol("a", y1), Equal(x1, y1), Less(x1, y1), Less(y1, x1),
     ContainedIn(x1, y2), Equal(y2, x2)}
Atoms == AtomsX \cup AtomsXY

Quantify(vs, fs) ==
    {Exists(v, f) : v \in vs, f \in fs} \cup {Forall(v, f) : v \in vs, f \in fs}
Connect(ls, rs) ==
    {And(l, r) : l \in ls, r \in rs} \cup {Or(l, r) : l \in ls, r \in rs}
        \cup {If(l, r) : l \in ls, r \in rs}
Negate(fs) == {Not(f) : f \in fs}

\* The pool of the translation runs: the atomic predicates (free
\* variables), then sentences that bind y inside x.
InnerY ==
    Quantify({y1}, AtomsXY \cup {Not(Less(y1, x1)),
                                 And(Symbol("a", y1), Less(x1, y1)),
                                 Variable_le(x1, y1)})
        \cup Quantify({y2}, {Equal(y2, x2), ContainedIn(x1, y2)})
BodiesX ==
    AtomsX \cup Negate(AtomsX) \cup InnerY
        \cup Connect({Symbol("a", x1)}, AtomsX \cup Quantify({y2}, {Equal(y2, x2)}))
Sentences ==
    Quantify({x1}, BodiesX)
        \cup Quantify({x2}, AtomsX \cup Negate(AtomsX) \cup InnerY)

Pool == Atoms \cup Sentences
          \cup Connect({Exists(x1, Symbol("a", x1))},
                       {Forall(y1, Symbol("a", y1)), Exists(x2, Less(x2, x2))})

\* The pool of the simplify runs: every connective over every connective.
DeepBodies ==
    Atoms \cup Negate(Atoms) \cup Connect(Atoms \cup Negate(AtomsX), Atoms)
        \cup Quantify({y1, y2}, AtomsXY \cup Negate(AtomsXY) \cup Connect(Atoms, AtomsXY))
DeepPool ==
    DeepBodies \cup Quantify({x1, x2}, DeepBodies)
        \cup Connect({Symbol("a", x1), Not(Exists(x1, Singleton(x1)))},
                     Quantify({x1, x2}, Atoms \cup Negate(Atoms)))

RECURSIVE Negations(_, _)
Negations(fs, n) == IF n = 0 THEN fs ELSE fs \cup Negations(Negate(fs), n - 1)

Formulas == Negations(Pool, MaxNeg)
DeepFormulas == Negations(DeepPool, MaxNeg)

RECURSIVE free(_)
free(f) ==
    CASE f.op \in Quantifiers -> free(f.body) \ {f.variable.name}
      [] f.op = "Not" -> free(f.body)
      [] f.op \in Connectives -> free(f.left) \cup free(f.right)
      [] f.op \in {"ContainedIn", "Equal", "Less"} -> {f.left.name, f.right.name}
      [] OTHER -> {f.variable.name}

Closed(f) == free(f) = {}

RECURSIVE symbols_of(_)
symbols_of(f) ==
    CASE f.op \in Quantifiers \/ f.op = "Not" -> symbols_of(f.body)
      [] f.op \in Connectives -> symbols_of(f.left) \cup symbols_of(f.right)
      [] f.op = "Symbol" -> {f.symbol}
      [] OTHER -> {}

----------------------------------------------------------------------------
(* The calls: translate(formula, alphabet), then accepts on its result     *)

Init ==
    /\ formula \in Formulas
    /\ alphabet \in Alphabets
    /\ pc = "init"
    /\ simplified = None
    /\ automaton = None
    /\ generator = default_state_generator
    /\ seq = <<>>
    /\ state = None
    /\ arcs = None
    /\ nextstates = None
    /\ result = None
    /\ builder = None
    /\ dfa = None
    /\ observed = None
    /\ labelling = <<>>

\* translate, line 186
Simplify ==
    /\ pc = "init"
    /\ simplified' = simplify(formula)
    /\ pc' = "simplified"
    /\ UNCHANGED <<formula, alphabet, automaton, generator, seq, state, arcs,
                   nextstates, result, builder, dfa, observed, labelling>>

\* translate, lines 187-188
Translate ==
    /\ pc = "simplified"
    /\ LET t == TranslationVisitor_accept(simplified, alphabet, generator)
       IN /\ automaton' = t.dfa
          /\ generator' = t.generator
          /\ IF IsException(t.dfa)
             THEN pc' = "raised" /\ result' = t.dfa.kind
             ELSE pc' = "translated" /\ result' = result
    /\ UNCHANGED <<formula, alphabet, simplified, seq, state, arcs, nextstates,
                   builder, dfa, observed, labelling>>

\* accepts, line 364
Accepts ==
    /\ pc = "translated"
    /\ state' = start(automaton)
    /\ pc' = "accepting"
    /\ UNCHANGED <<formula, alphabet, simplified, automaton, generator, seq,
                   arcs, nextstates, result, builder, dfa, observed,
                   labelling>>

\* accepts, lines 365-366: one iteration of the loop, on the next symbol
Iteration(symbol) ==
    /\ pc = "accepting"
    /\ LET t == transition(automaton, state, symbol)
       IN /\ arcs' = t.arcs
          /\ nextstates' = t.nextstates
          /\ IF t.error # None
             THEN pc' = "raised" /\ result' = t.error /\ state' = state
             ELSE pc' = pc /\ result' = result /\ state' = t.state
    /\ seq' = Append(seq, symbol)
    /\ UNCHANGED <<formula, alphabet, simplified, automaton, generator,
                   builder, dfa, observed, labelling>>

\* The iteration, for sequences of at most MaxLen symbols.
Transition(symbol) ==
    /\ Len(seq) < MaxLen
    /\ Iteration(symbol)

\* accepts, line 367: the sequence is exhausted
Return ==
    /\ pc = "accepting"
    /\ result' = Bool(final(automaton, state))
    /\ pc' = "returned"
    /\ UNCHANGED <<formula, alphabet, simplified, automaton, generator, seq,
                   state, arcs, nextstates, builder, dfa, observed,
                   labelling>>

Next ==
    \/ Simplify
    \/ Translate
    \/ Accepts
    \/ \E symbol \in Symbols : Transition(symbol)
    \/ Return

Spec == Init /\ [][Next]_vars

\* simplify alone, over the deeper pool
InitSimplify ==
    /\ formula \in DeepFormulas
    /\ alphabet = Symbols
    /\ pc = "init"
    /\ simplified = None
    /\ automaton = None
    /\ generator = default_state_generator
    /\ seq = <<>>
    /\ state = None
    /\ arcs = None
    /\ nextstates = None
    /\ result = None
    /\ builder = None
    /\ dfa = None
    /\ observed = None
    /\ labelling = <<>>

NextSimplify == Simplify

SpecSimplify == InitSimplify /\ [][NextSimplify]_vars

----------------------------------------------------------------------------
(* Properties                                                              *)

Done == pc \in {"returned", "raised"}

\* The sequence read so far is a word over the alphabet.
WordOverAlphabet == Range(seq) \subseteq alphabet

\* translate's precondition on Symbol atoms (symbol_dfa's assertion).
SymbolsInAlphabet == symbols_of(formula) \subseteq alphabet

\* What translate(f, alphabet) followed by accepts(..., seq) gives.
outcome(f) ==
    LET t == translate(f, alphabet, generator)
    IN IF IsException(t.dfa) THEN t.dfa.kind ELSE accepts(t.dfa, seq)

RECURSIVE ops_of(_)
ops_of(f) ==
    CASE f.op \in Quantifiers \/ f.op = "Not" -> {f.op} \cup ops_of(f.body)
      [] f.op \in Connectives -> {f.op} \cup ops_of(f.left) \cup ops_of(f.right)
      [] OTHER -> {f.op}

\* Whether f has a Less atom whose two variables have the same name.
RECURSIVE has_less_same_name(_)
has_less_same_name(f) ==
    CASE f.op \in Quantifiers \/ f.op = "Not" -> has_less_same_name(f.body)
      [] f.op \in Connectives -> has_less_same_name(f.left) \/ has_less_same_name(f.right)
      [] f.op = "Less" -> f.left.name = f.right.name
      [] OTHER -> FALSE

RECURSIVE NormalForm(_)
NormalForm(f) ==
    CASE f.op = "Exists" -> f.variable.order = 2 /\ NormalForm(f.body)
      [] f.op = "Not" -> NormalForm(f.body)
      [] f.op = "And" -> NormalForm(f.left) /\ NormalForm(f.right)
      [] OTHER -> f.op \in Predicates

\* C1: simplify(f) returns, for every formula f, a formula built only from
\* Exists over an order-2 variable, Not, And and the atomic predicates.
C1_SimplifyNormalForm ==
    pc = "simplified" => NormalForm(simplified)

C1_Witness ==
    /\ pc = "simplified"
    /\ formula.op = "Not"
    /\ {"Forall", "If"} \subseteq ops_of(formula)
    /\ formula.body.op = "Forall"
    /\ formula.body.variable.order = 1

\* C2: for a closed formula f whose symbols are in the alphabet and a word
\* over the alphabet, accepts(translate(Not(f))) is the negation of
\* accepts(translate(f)): one returns True exactly when the other does not.
C2_NotNegatesAcceptance ==
    (Done /\ Closed(formula) /\ SymbolsInAlphabet /\ WordOverAlphabet)
        => ((outcome(Not(formula)) = "True") <=> (result # "True"))

\* C3: for closed formulas f and g and a word over the alphabet,
\* accepts(translate(And(f, g))) holds (returns True) exactly when both
\* accepts(translate(f)) and accepts(translate(g)) hold.
Conjuncts ==
    {Forall(y1, Symbol("a", y1)), Not(Exists(x2, Singleton(x2))),
     Exists(x2, Less(x2, x2))}

C3_AndIsConjunction ==
    (Done /\ Closed(formula) /\ SymbolsInAlphabet /\ WordOverAlphabet)
        => \A g \in Conjuncts :
              (outcome(And(formula, g)) = "True")
                  <=> (result = "True" /\ outcome(g) = "True")

C3_Witness ==
    /\ pc = "returned"
    /\ Closed(formula) /\ SymbolsInAlphabet
    /\ result = "True"
    /\ Len(seq) = 2
    /\ outcome(And(formula, Forall(y1, Symbol("a", y1)))) = "True"
    /\ outcome(And(formula, Not(Exists(x2, Singleton(x2))))) = "False"

\* C4: for a closed formula whose symbols are in the alphabet and a word
\* over the alphabet, every step of accepts finds exactly one successor
\* and accepts returns a boolean (nothing is raised).
C4_SingleSuccessor ==
    (Closed(formula) /\ SymbolsInAlphabet /\ WordOverAlphabet)
        => /\ pc # "raised"
           /\ (pc \in {"accepting", "returned"} /\ seq # <<>>)
                 => Cardinality(nextstates) = 1
           /\ pc = "returned" => result \in {"True", "False"}

\* C5: at each step of accepts the successors are the next states of the
\* arcs for the read symbol whose pos set is empty; an arc with a non-empty
\* pos set contributes none.
C5_OnlyEmptyPosArcs ==
    (pc \in {"accepting", "returned", "raised"} /\ seq # <<>>
            /\ arcs.error = None)
        => /\ nextstates = {arc.nextstate : arc \in {a \in arcs.arcs : a.pos = {}}}
           /\ pc # "raised"

\* C5 as amended: the successors are the next states of all the arcs for
\* the read symbol, whatever their pos and neg sets; when arcs with labels
\* lead to different states, the step fails the single-successor assertion.
C5_AllArcs ==
    (pc \in {"accepting", "returned", "raised"} /\ seq # <<>>
            /\ arcs.error = None)
        => /\ nextstates = {arc.nextstate : arc \in arcs.arcs}
           /\ (\E a1, a2 \in arcs.arcs : a1.nextstate # a2.nextstate)
                 => (pc = "raised" /\ result = "AssertionError")

C5_Witness ==
    /\ pc = "raised"
    /\ result = "AssertionError"
    /\ formula = Symbol("a", x1)
    /\ seq = <<"a", "b">>
    /\ arcs.error = None
    /\ \E a1, a2 \in arcs.arcs :
          a1.pos = {} /\ a2.pos # {} /\ a1.nextstate # a2.nextstate

\* A step at which no arc yields a successor for the read symbol.
NoSuccessor == seq # <<>> /\ nextstates = {}

\* C6: when no arc yields a successor at some step, accepts returns false.
C6_NoSuccessorRejects ==
    NoSuccessor => (Done => result = "False")

\* C6 as amended: when no arc yields a successor at some step, accepts
\* raises (KeyError from DictionaryArcs.for_symbol, or AssertionError) and
\* returns nothing.
C6_NoSuccessorRaises ==
    NoSuccessor => (pc = "raised" /\ result \in {"KeyError", "AssertionError"})

C6_Witness ==
    /\ pc = "raised"
    /\ result = "KeyError"
    /\ nextstates = {}
    /\ Len(seq) = 2
    /\ seq[1] \in alphabet /\ seq[2] \notin alphabet

\* The DefaultDFA objects an automaton is composed of.
RECURSIVE base_dfas(_)
base_dfas(a) ==
    CASE a.kind = "DefaultDFA" -> {a}
      [] a.kind = "IntersectionDFA" -> base_dfas(a.left) \cup base_dfas(a.right)
      [] a.kind \in {"ComplementDFA", "ProjectedNFA"} -> base_dfas(a.dfa)
      [] a.kind = "DeterminizedDFA" -> base_dfas(a.nfa)
      [] OTHER -> {}

arcs_of(d) ==
    UNION {Range(d.arcs_at_state[s][symbol]) :
              s \in DOMAIN d.arcs_at_state, symbol \in alphabet}

\* C7: every arc of every automaton produced by a base constructor or by
\* translate has disjoint pos and neg sets, also when the two variables of
\* Less, Equal or ContainedIn have the same name.
C7_PosNegDisjoint ==
    pc \in {"translated", "accepting", "returned", "raised"}
        => /\ \A d \in base_dfas(automaton) :
                 \A arc \in arcs_of(d) : arc.pos \cap arc.neg = {}
           /\ seq # <<>> => \A arc \in arcs.arcs : arc.pos \cap arc.neg = {}

\* C9: translate(Exists(x, Equal(x, x)), S) with x of order 1 accepts
\* every non-empty word over S and rejects the empty word.
C9_ExistsTrivial ==
    (formula = Exists(x1, Equal(x1, x1)) /\ WordOverAlphabet)
        => /\ pc # "raised"
           /\ pc = "returned" => result = Bool(seq # <<>>)

C9_Witness ==
    /\ formula = Exists(x1, Equal(x1, x1))
    /\ pc = "returned"
    /\ alphabet = Symbols
    /\ seq = <<"a", "b">>
    /\ result = "True"

\* C10: for a closed formula f and a word over the alphabet, the automaton
\* translated from simplify(simplify(f)) accepts the word exactly when the
\* automaton translated from simplify(f) does.
C10_SimplifyIdempotent ==
    (Done /\ Closed(formula) /\ WordOverAlphabet)
        => LET t == TranslationVisitor_accept(simplify(simplified), alphabet,
                                              generator)
               twice == IF IsException(t.dfa) THEN t.dfa.kind
                        ELSE accepts(t.dfa, seq)
           IN (twice = "True") <=> (result = "True")

C10_Witness ==
    /\ pc = "returned"
    /\ Closed(formula)
    /\ formula.op = "Forall"
    /\ formula.variable.order = 1
    /\ simplified # formula
    /\ simplify(simplified) = simplified
    /\ result = "True"
    /\ Len(seq) = 2

----------------------------------------------------------------------------
(* The builder: a DefaultBuilder() is filled, build() is called, and the   *)
(* builder is used further.                                                *)

MaxStates == 2   \* add_state calls
MaxArcs == 2     \* add_arc calls

\* The number of arcs a builder holds.
RECURSIVE count_arcs(_, _)
count_arcs(arcs_at_state, states) ==
    IF states = {} THEN 0
    ELSE LET s == CHOOSE x \in states : TRUE
             d == arcs_at_state[s]
         IN (IF "a" \in DOMAIN d THEN Len(d["a"]) ELSE 0)
                + count_arcs(arcs_at_state, states \ {s})

NumArcs(b) == count_arcs(b.arcs_at_state, DOMAIN b.arcs_at_state)

\* The DefaultDFA that build() returned, as it is now: self.final_states is
\* the builder's set object and each DictionaryArcs wraps the builder's own
\* dict of that state, so both are read from the builder; the start state
\* and the dict from states to DictionaryArcs are the DFA's own.
BuiltDFA ==
    DefaultDFA(dfa.start_state, builder.final_states,
               [s \in dfa.states |-> builder.arcs_at_state[s]])

\* What the DFA's start(), final(s) and arcs_at(s) return, for every state
\* identifier s the generator can produce: arcs_at(s) returns the arcs of
\* a state in states and raises KeyError for any other.
Observation(d) ==
    [start |-> start(d),
     final |-> {s \in 0..MaxStates : final(d, s)},
     states |-> DOMAIN d.arcs_at_state,
     arcs_at |-> d.arcs_at_state]

InitBuilder ==
    /\ builder = DefaultBuilder
    /\ generator = default_state_generator
    /\ dfa = None
    /\ observed = None
    /\ labelling = <<>>
    /\ pc = "building"
    /\ formula = None
    /\ alphabet = Symbols
    /\ simplified = None
    /\ automaton = None
    /\ seq = <<>>
    /\ state = None
    /\ arcs = None
    /\ nextstates = None
    /\ result = None

AddState ==
    /\ generator < MaxStates
    /\ builder' = add_state(builder, next_state(generator))
    /\ generator' = advance(generator)
    /\ UNCHANGED <<formula, alphabet, pc, simplified, automaton, seq, state,
                   arcs, nextstates, result, dfa, observed, labelling>>

SetStart(s) ==
    /\ builder' = set_start(builder, s)
    /\ UNCHANGED <<formula, alphabet, pc, simplified, automaton, generator,
                   seq, state, arcs, nextstates, result, dfa, observed,
                   labelling>>

SetFinal(s) ==
    /\ builder' = set_final(builder, s)
    /\ UNCHANGED <<formula, alphabet, pc, simplified, automaton, generator,
                   seq, state, arcs, nextstates, result, dfa, observed,
                   labelling>>

AddArc(s, nextstate, symbol, pos) ==
    /\ NumArcs(builder) < MaxArcs
    /\ builder' = add_arc(builder, s, nextstate, symbol, pos, {})
    /\ UNCHANGED <<formula, alphabet, pc, simplified, automaton, generator,
                   seq, state, arcs, nextstates, result, dfa, observed,
                   labelling>>

Build ==
    /\ pc = "building"
    /\ dfa' = [start_state |-> builder.start_state,
               states |-> DOMAIN builder.arcs_at_state]
    /\ observed' = Observation(build(builder))
    /\ pc' = "built"
    /\ UNCHANGED <<formula, alphabet, simplified, automaton, generator, seq,
                   state, arcs, nextstates, result, builder, labelling>>

NextBuilder ==
    \/ AddState
    \/ \E s \in DOMAIN builder.arcs_at_state : SetStart(s)
    \/ \E s \in DOMAIN builder.arcs_at_state : SetFinal(s)
    \/ \E s, n \in DOMAIN builder.arcs_at_state, pos \in SUBSET {"x"} :
          AddArc(s, n, "a", pos)
    \/ Build

SpecBuilder == InitBuilder /\ [][NextBuilder]_vars

\* C8: after build() returns, any later add_state, set_start, set_final and
\* add_arc calls on the builder leave what the built DFA's start(),
\* final(s) and arcs_at(s) return unchanged, for every state s.
C8_BuiltDFAImmutable ==
    pc = "built" => observed = Observation(BuiltDFA)

----------------------------------------------------------------------------
(* The formulas of translation_test.py and examples_test.py, each over the *)
(* alphabet of its test, read one symbol of that alphabet at a time.       *)

MaxWord == 5    \* longest word of the example runs

z1 == Variable("z", 1)

\* test_less
LessExample ==
    Exists(x1, And(Symbol("a", x1),
                   Exists(y1, And(Symbol("b", y1), Less(x1, y1)))))

\* test_first: formula and formula_2
FirstExample ==
    Exists(x1, And(Symbol("a", x1), Not(Exists(y1, Less(y1, x1)))))
FirstExample_2 ==
    Exists(x1, And(Symbol("a", x1), Forall(y1, Variable_le(x1, y1))))

\* test_forall_symbol
ForallExample == Forall(x1, Symbol("a", x1))

\* test_exists_symbol
ExistsExample == Exists(x1, Symbol("a", x1))

\* test_example_1: formula_1, formula_2 and their conjunction
formula_1 ==
    Exists(x1, And(Not(Exists(y1, Less(y1, x1))),
                   Exists(y1, And(And(Less(x1, y1),
                                      Not(Exists(z1, And(Less(x1, z1),
                                                         Less(z1, y1))))),
                                  Symbol("b", y1)))))
formula_2 ==
    Exists(x1, And(Not(Exists(y1, Less(x1, y1))),
                   Exists(y1, And(And(Less(y1, x1),
                                      Not(Exists(z1, And(Less(y1, z1),
                                                         Less(z1, x1))))),
                                  Symbol("b", y1)))))
Example1 == And(formula_1, formula_2)

Examples ==
    {<<LessExample, {"a", "b", "c"}>>, <<FirstExample, {"a", "b", "c"}>>,
     <<FirstExample_2, {"a", "b", "c"}>>, <<ForallExample, {"a", "b"}>>,
     <<ExistsExample, {"a", "b"}>>, <<Example1, {"a", "b"}>>}

InitExamples ==
    /\ \E e \in Examples : formula = e[1] /\ alphabet = e[2]
    /\ pc = "init"
    /\ simplified = None
    /\ automaton = None
    /\ generator = default_state_generator
    /\ seq = <<>>
    /\ state = None
    /\ arcs = None
    /\ nextstates = None
    /\ result = None
    /\ builder = None
    /\ dfa = None
    /\ observed = None
    /\ labelling = <<>>

\* accepts, lines 365-366, on a symbol of the alphabet
TransitionExample(symbol) ==
    /\ Len(seq) < MaxWord
    /\ symbol \in alphabet
    /\ Iteration(symbol)

NextExamples ==
    \/ Simplify
    \/ Translate
    \/ Accepts
    \/ \E symbol \in {"a", "b", "c"} : TransitionExample(symbol)
    \/ Return

SpecExamples == InitExamples /\ [][NextExamples]_vars

----------------------------------------------------------------------------
(* Properties of translate's preconditions and of the example formulas     *)

\* C11: translate raises (symbol_dfa's assertion), before any membership
\* test, whenever the formula has a Symbol atom whose symbol is not in the
\* alphabet, at any depth; otherwise translate returns a DFA.
C11_SymbolOutsideAlphabetFails ==
    (pc \notin {"init", "simplified"})
        => IF SymbolsInAlphabet
           THEN ~IsException(automaton)
           ELSE /\ pc = "raised" /\ result = "AssertionError"
                /\ IsException(automaton)
                /\ seq = <<>> /\ state = None

C11_Witness ==
    /\ pc = "raised"
    /\ result = "AssertionError"
    /\ formula.op = "Not"
    /\ formula.body.op = "Exists"
    /\ symbols_of(formula) = {"a"}
    /\ alphabet = {"b"}
    /\ seq = <<>>

\* Some position labelled a strictly precedes some position labelled b.
APrecedesB(w) ==
    \E i, j \in 1..Len(w) : i < j /\ w[i] = "a" /\ w[j] = "b"

\* C12: over {a, b, c} the automaton of LessExample accepts a word exactly
\* when some position labelled a strictly precedes one labelled b.
C12_LessExample ==
    (formula = LessExample)
        => /\ pc # "raised"
           /\ pc = "returned" => result = Bool(APrecedesB(seq))

C12_Witness ==
    /\ formula = LessExample
    /\ alphabet = {"a", "b", "c"}
    /\ pc = "returned"
    /\ seq = <<"c", "a", "b">>
    /\ result = "True"

\* The first symbol of the word is a.
FirstIsA(w) == w # <<>> /\ w[1] = "a"

\* C13: over {a, b, c} the two formulas of test_first translate to automata
\* that accept the same words, exactly those whose first symbol is a.
C13_FirstExamplesAgree ==
    (formula \in {FirstExample, FirstExample_2})
        => /\ pc # "raised"
           /\ pc = "returned"
                 => /\ result = Bool(FirstIsA(seq))
                    /\ outcome(FirstExample) = outcome(FirstExample_2)

C13_Witness ==
    /\ pc = "returned"
    /\ formula = FirstExample_2
    /\ simplified # FirstExample
    /\ alphabet = {"a", "b", "c"}
    /\ seq = <<"a", "c">>
    /\ result = "True"
    /\ outcome(FirstExample) = "True"

\* C14: over {a, b} the automaton of Forall(x, Symbol(a, x)) accepts a word
\* exactly when every symbol of the word is a.
C14_ForallExample ==
    (formula = ForallExample)
        => /\ pc # "raised"
           /\ pc = "returned"
                 => result = Bool(\A i \in 1..Len(seq) : seq[i] = "a")

C14_Witness ==
    /\ formula = ForallExample
    /\ alphabet = {"a", "b"}
    /\ pc = "returned"
    /\ seq = <<"a", "b">>
    /\ result = "False"

\* The word has at least two symbols and both its second and its
\* second-to-last symbol are b.
SecondAndSecondToLastAreB(w) ==
    Len(w) >= 2 /\ w[2] = "b" /\ w[Len(w) - 1] = "b"

\* C15: over {a, b} the automaton of test_example_1's formula accepts a
\* word exactly when it has at least two symbols and both its second and
\* its second-to-last symbol are b.
C15_Example1 ==
    (formula = Example1)
        => /\ pc # "raised"
           /\ pc = "returned"
                 => result = Bool(SecondAndSecondToLastAreB(seq))

C15_Witness ==
    /\ formula = Example1
    /\ alphabet = {"a", "b"}
    /\ pc = "returned"
    /\ seq = <<"a", "b", "b", "a">>
    /\ result = "True"

----------------------------------------------------------------------------
(* Labelled runs.  A word is read together with a labelling: per position, *)
(* the set of variable names the position belongs to.  An arc applies to a *)
(* labelling when its pos is inside it and its neg is disjoint from it.    *)

Applicable(arc, L) == arc.pos \subseteq L /\ arc.neg \cap L = {}

\* The states reached from the states S of automaton a over the arcs that
\* a.arcs_at(s).for_symbol(symbol) yields and that apply to L; the
\* exception when one of the for_symbol calls raises.
step(a, S, symbol, L) ==
    LET streams == {for_symbol(a, s, symbol) : s \in S}
        errors == {m.error : m \in streams} \ {None}
        all == UNION {m.arcs : m \in streams}
    IN IF errors # {}
       THEN [error |-> CHOOSE e \in errors : TRUE, states |-> {}]
       ELSE [error |-> None,
             states |-> {arc.nextstate : arc \in {x \in all : Applicable(x, L)}}]

RECURSIVE run(_, _, _, _)
run(a, S, w, lab) ==
    IF w = <<>> THEN [error |-> None, states |-> S]
    ELSE LET t == step(a, S, Head(w), Head(lab))
         IN IF t.error # None THEN t
            ELSE run(a, t.states, Tail(w), Tail(lab))

\* Whether a has an accepting labelled run on w under lab: "True",
\* "False", or the exception raised while the arcs are produced.
accepts_labelled(a, w, lab) ==
    LET r == run(a, {start(a)}, w, lab)
    IN IF r.error # None THEN r.error
       ELSE Bool(\E s \in r.states : final(a, s))

\* lab with the variable v added at the positions of V.
with_variable(lab, v, V) ==
    [i \in 1..Len(lab) |-> IF i \in V THEN lab[i] \cup {v} ELSE lab[i]]

\* The Exists formulas whose automaton is run under a labelling; the free
\* variables of the formulas over x alone that bind y inside are labelled.
ProjectionFormulas == {f \in Sentences \cup InnerY : f.op = "Exists"}

InitProjection ==
    /\ formula \in ProjectionFormulas
    /\ alphabet = Symbols
    /\ pc = "init"
    /\ simplified = None
    /\ automaton = None
    /\ generator = default_state_generator
    /\ seq = <<>>
    /\ state = None
    /\ arcs = None
    /\ nextstates = None
    /\ result = None
    /\ builder = None
    /\ dfa = None
    /\ observed = None
    /\ labelling = <<>>

\* The run starts at the automaton's start state.
StartLabelled ==
    /\ pc = "translated"
    /\ state' = {start(automaton)}
    /\ result' = Bool(final(automaton, start(automaton)))
    /\ pc' = "running"
    /\ UNCHANGED <<formula, alphabet, simplified, automaton, generator, seq,
                   arcs, nextstates, builder, dfa, observed, labelling>>

\* One position is read: its symbol, and the set L of free variables of
\* the formula that it belongs to.
ReadLabelled(symbol, L) ==
    /\ pc = "running"
    /\ Len(seq) < MaxLen
    /\ LET t == step(automaton, state, symbol, L)
       IN IF t.error # None
          THEN pc' = "raised" /\ result' = t.error /\ state' = state
          ELSE /\ pc' = pc
               /\ state' = t.states
               /\ result' = Bool(\E u \in t.states : final(automaton, u))
    /\ seq' = Append(seq, symbol)
    /\ labelling' = Append(labelling, L)
    /\ UNCHANGED <<formula, alphabet, simplified, automaton, generator, arcs,
                   nextstates, builder, dfa, observed>>

NextProjection ==
    \/ Simplify
    \/ Translate
    \/ StartLabelled
    \/ \E symbol \in alphabet, L \in SUBSET free(formula) :
          ReadLabelled(symbol, L)

SpecProjection == InitProjection /\ [][NextProjection]_vars

\* C16: DeterminizedDFA(ProjectedNFA(A, v)) has an accepting labelled run on
\* a word under an assignment of the other variables exactly when A has an
\* accepting labelled run under that assignment extended by some set of
\* positions for v; for a closed formula, accepts returns True exactly when
\* the projected NFA has a run on the word that ends in a final state.
C16_ProjectionIsExists ==
    (pc \in {"running", "raised"} /\ automaton.kind = "DeterminizedDFA")
        => LET A == automaton.nfa.dfa
               v == automaton.nfa.variable
           IN /\ (result = "True")
                    <=> \E V \in SUBSET (1..Len(seq)) :
                           accepts_labelled(A, seq, with_variable(labelling, v, V))
                               = "True"
              /\ Closed(formula)
                    => ((accepts(automaton, seq) = "True")
                          <=> (accepts_labelled(automaton.nfa, seq, labelling)
                                  = "True"))

----------------------------------------------------------------------------
(* DeterminizedDFA objects constructed directly: over the projections the  *)
(* translator builds for formulas with free variables, and over an         *)
(* automaton filled in by hand through a DefaultBuilder, some of whose     *)
(* states have no arc for some labellings.                                 *)

LabelNames == {"x", "y"}

\* b = DefaultBuilder(); two add_state() calls; set_start; set_final; five
\* add_arc calls; build()
PartialNFA ==
    LET s0 == next_state(default_state_generator)
        s1 == next_state(advance(default_state_generator))
        b == set_final(set_start(
                 add_state(add_state(DefaultBuilder, s0), s1), s0), s1)
    IN build(add_arcs(b, << <<s0, s1, "a", {"x"}, {"y"}>>,
                            <<s0, s0, "a", {"x"}, {}>>,
                            <<s1, s1, "a", {}, {"x"}>>,
                            <<s0, s0, "b", {}, {}>>,
                            <<s1, s1, "b", {"y"}, {}>> >>))

\* Exists formulas with free variables; translate returns the
\* DeterminizedDFA of visit_exists for each.
OpenFormulas ==
    {Exists(z1, And(Less(x1, z1), Less(z1, y1))),
     Exists(z1, And(Symbol("a", z1), Not(Exists(y1, Less(z1, y1))))),
     Exists(y2, ContainedIn(x1, y2)),
     Exists(z1, Not(And(Symbol("a", x1), Equal(z1, y1))))}

DeterminizedInputs ==
    {DeterminizedDFA(PartialNFA)}
        \cup {translate(f, Symbols, default_state_generator).dfa : f \in OpenFormulas}

InitDeterminized ==
    /\ automaton \in DeterminizedInputs
    /\ alphabet = Symbols
    /\ pc = "translated"
    /\ formula = None
    /\ simplified = None
    /\ generator = default_state_generator
    /\ seq = <<>>
    /\ state = None
    /\ arcs = None
    /\ nextstates = None
    /\ result = None
    /\ builder = None
    /\ dfa = None
    /\ observed = None
    /\ labelling = <<>>

NextDeterminized ==
    \/ StartLabelled
    \/ \E symbol \in alphabet, L \in SUBSET LabelNames : ReadLabelled(symbol, L)

SpecDeterminized == InitDeterminized /\ [][NextDeterminized]_vars

\* The DeterminizedDFA objects inside automaton a, each with the
\* macro-state it is in when a is in state s (a sequence: the states of
\* different automata are values of different kinds).
RECURSIVE determinized_parts(_, _)
RECURSIVE determinized_parts_of(_, _)
determinized_parts(a, s) ==
    CASE a.kind = "IntersectionDFA" ->
            determinized_parts(a.left, s[1]) \o determinized_parts(a.right, s[2])
      [] a.kind \in {"ComplementDFA", "ProjectedNFA"} ->
            determinized_parts(a.dfa, s)
      [] a.kind = "DeterminizedDFA" ->
            <<[nfa |-> a.nfa, macro |-> s]>> \o determinized_parts_of(a.nfa, s)
      [] OTHER -> <<>>
determinized_parts_of(nfa, S) ==
    IF S = {} THEN <<>>
    ELSE LET u == CHOOSE x \in S : TRUE
         IN determinized_parts(nfa, u) \o determinized_parts_of(nfa, S \ {u})

\* The for_symbol results of the members of a macro-state.
members(part, symbol) == {for_symbol(part.nfa, m, symbol) : m \in part.macro}

\* The variable names in pos or neg of any arc of the members.
variables_of(streams) ==
    UNION {arc.pos \cup arc.neg : arc \in UNION {m.arcs : m \in streams}}

\* One arc per subset P of V: pos = P, neg = V minus P, to the next states
\* of the underlying arcs whose pos is inside P and neg inside V minus P.
OneArcPerSubset(streams, symbol) ==
    LET under == UNION {m.arcs : m \in streams}
        V == variables_of(streams)
    IN {Arc(symbol, P, V \ P,
            {arc.nextstate : arc \in
                {x \in under : x.pos \subseteq P /\ x.neg \subseteq V \ P}}) :
        P \in SUBSET V}

\* C17: for every macro-state of a DeterminizedDFA and every symbol for
\* which its members yield arcs, for_symbol emits exactly one arc for each
\* subset P of the variables V of those arcs (2^|V| arcs), with pos = P,
\* neg = V minus P and the set of next states of the arcs whose pos is
\* inside P and neg inside V minus P; the empty macro-state gets a single
\* unlabelled arc to the empty macro-state.
C17_OneArcPerSubset ==
    (pc = "running")
        => \A u \in state :
              LET parts == determinized_parts(automaton, u)
              IN \A i \in 1..Len(parts), symbol \in alphabet :
                 LET part == parts[i]
                     streams == members(part, symbol)
                     out == DeterminizedArcs_for_symbol(streams, symbol)
                 IN (\A m \in streams : m.error = None)
                       => /\ out.error = None
                          /\ out.arcs = OneArcPerSubset(streams, symbol)
                          /\ Cardinality(out.arcs)
                                = 2 ^ Cardinality(variables_of(streams))
                          /\ part.macro = {}
                                => out.arcs = {Arc(symbol, {}, {}, {})}

C17_Witness ==
    /\ pc = "running"
    /\ seq = <<"a">>
    /\ labelling = <<{}>>
    /\ state = {{}}
    /\ automaton.kind = "DeterminizedDFA"
    /\ LET streams == members([nfa |-> automaton.nfa,
                               macro |-> start(automaton)], "a")
           out == DeterminizedArcs_for_symbol(streams, "a")
       IN /\ Cardinality(variables_of(streams)) = 2
          /\ Cardinality(out.arcs) = 4
          /\ Arc("a", {}, {"x", "y"}, {}) \in out.arcs
    /\ DeterminizedArcs_for_symbol(members([nfa |-> automaton.nfa,
                                            macro |-> {}], "b"), "b").arcs
          = {Arc("b", {}, {}, {})}

\* The number of arcs in the list that apply to the labelling L.
applicable_arcs(arc_list, L) ==
    Cardinality({i \in 1..Len(arc_list) : Applicable(arc_list[i], L)})

\* d is deterministic and total in the labelled sense: at every state, for
\* every symbol of the alphabet and every labelling, exactly one arc applies.
DeterministicAndTotal(d) ==
    \A s \in DOMAIN d.arcs_at_state, symbol \in alphabet, L \in SUBSET LabelNames :
        /\ symbol \in DOMAIN d.arcs_at_state[s]
        /\ applicable_arcs(d.arcs_at_state[s][symbol], L) = 1

\* C18: every base automaton (universal, Symbol, Equal, ContainedIn,
\* Singleton, Less) built over an alphabet is deterministic and total in
\* the labelled sense: exactly one arc applies per state, symbol and
\* labelling.
C18_BaseAutomataDeterministicTotal ==
    (pc = "translated")
        => \A d \in base_dfas(automaton) : DeterministicAndTotal(d)

C18_Witness ==
    /\ pc = "translated"
    /\ formula = Less(x1, y1)
    /\ alphabet = Symbols
    /\ automaton.kind = "DefaultDFA"
    /\ Cardinality(DOMAIN automaton.arcs_at_state) = 3
    /\ Len(automaton.arcs_at_state[start(automaton)]["a"]) = 4
    /\ applicable_arcs(automaton.arcs_at_state[start(automaton)]["a"],
                       {"x", "y"}) = 1

\* The automata that automaton a wraps in a ComplementDFA (a sequence: the
\* automata are values of different kinds).
RECURSIVE complement_operands(_)
complement_operands(a) ==
    CASE a.kind = "IntersectionDFA" ->
            complement_operands(a.left) \o complement_operands(a.right)
      [] a.kind = "ComplementDFA" -> <<a.dfa>> \o complement_operands(a.dfa)
      [] a.kind = "ProjectedNFA" -> complement_operands(a.dfa)
      [] a.kind = "DeterminizedDFA" -> complement_operands(a.nfa)
      [] OTHER -> <<>>

\* The states of a reached from the states S by labelled words of at most
\* n positions; for_symbol calls that raise lead nowhere.
RECURSIVE reachable(_, _, _)
reachable(a, S, n) ==
    IF n = 0 THEN S
    ELSE LET next == UNION {step(a, {s}, symbol, L).states :
                               s \in S, symbol \in alphabet,
                               L \in SUBSET LabelNames}
         IN IF next \subseteq S THEN S ELSE reachable(a, S \cup next, n - 1)

\* At every reachable state of a, for every alphabet symbol and every
\* labelling, exactly one successor is defined.
OneSuccessorEverywhere(a) ==
    \A s \in reachable(a, {start(a)}, MaxLen) :
        \A symbol \in alphabet, L \in SUBSET LabelNames :
            LET t == step(a, {s}, symbol, L)
            IN t.error = None /\ Cardinality(t.states) = 1

\* C19: every automaton the translator wraps in a ComplementDFA is
\* deterministic and total in the labelled sense: at every reachable state
\* of the operand, for every alphabet symbol and every labelling, exactly
\* one successor is defined.
C19_ComplementOperandDeterministicTotal ==
    (pc = "translated")
        => LET operands == complement_operands(automaton)
           IN \A i \in 1..Len(operands) : OneSuccessorEverywhere(operands[i])

----------------------------------------------------------------------------
(* Several builders: DefaultBuilder() is called more than once and         *)
(* add_state is called on the builders in any order.  builder is the       *)
(* sequence of the builders constructed, observed the sequence, per        *)
(* builder, of the identifiers its add_state calls returned.               *)

MaxBuilders == 3   \* DefaultBuilder() calls
MaxCalls == 5      \* add_state calls, over all builders

InitBuilders ==
    /\ builder = <<>>
    /\ generator = default_state_generator
    /\ observed = <<>>
    /\ dfa = None
    /\ labelling = <<>>
    /\ pc = "building"
    /\ formula = None
    /\ alphabet = Symbols
    /\ simplified = None
    /\ automaton = None
    /\ seq = <<>>
    /\ state = None
    /\ arcs = None
    /\ nextstates = None
    /\ result = None

\* DefaultBuilder(): self.state_generator is the default argument, the one
\* generator object, which the call leaves where it is.
NewBuilder ==
    /\ Len(builder) < MaxBuilders
    /\ builder' = Append(builder, DefaultBuilder)
    /\ observed' = Append(observed, <<>>)
    /\ UNCHANGED <<formula, alphabet, pc, simplified, automaton, generator,
                   seq, state, arcs, nextstates, result, dfa, labelling>>

\* builder[i].add_state(): state = next(self.state_generator), the state is
\* entered in the builder's arcs_at_state and returned.
AddStateOn(i) ==
    /\ generator < MaxCalls
    /\ LET s == next_state(generator)
       IN /\ builder' = [builder EXCEPT ![i] = add_state(builder[i], s)]
          /\ observed' = [observed EXCEPT ![i] = Append(observed[i], s)]
    /\ generator' = advance(generator)
    /\ UNCHANGED <<formula, alphabet, pc, simplified, automaton, seq, state,
                   arcs, nextstates, result, dfa, labelling>>

NextBuilders ==
    \/ NewBuilder
    \/ \E i \in DOMAIN builder : AddStateOn(i)

SpecBuilders == InitBuilders /\ [][NextBuilders]_vars

\* C20: the state generator is scoped to its builder: in any interleaving
\* of add_state calls on several builders made with default arguments, the
\* identifiers each builder's add_state calls return are 0, 1, 2, ... in
\* order, whatever the other builders did.
C20_BuilderScopedGenerator ==
    \A i \in DOMAIN builder :
        observed[i] = [k \in 1..Len(observed[i]) |-> k - 1]

====
